---- MODULE Spec2Model ----
(***************************************************************************)
(* Moving-average deviation analyzer (src/ma_deviation_analyzer.py).       *)
(*                                                                         *)
(* Numbers.  Closing prices are integers counted in tenths of a price unit  *)
(* (100.0 is 1000, 103.2 is 1032).                                         *)
(* Every value the analyzer derives from them (moving average, deviation   *)
(* percentage, thresholds) is an exact rational [n |-> num, d |-> den]     *)
(* with den > 0 in lowest terms.  The program computes the same values in  *)
(* IEEE double precision; rounding errors of that arithmetic (of the order *)
(* of 1e-14 percent) are not represented.                                  *)
(***************************************************************************)
EXTENDS Integers, Sequences, FiniteSets, TLC

VARIABLES
    analyzer,       \* the MADeviationAnalyzer instance: threshold, THRESHOLDS
    df,             \* the caller's price history: sequence of rows [date, close]
    deviation_pct,  \* argument handed to generate_signal
    signals,        \* argument handed to _calculate_overall_signal
    out,            \* outcome of the latest call
    prev,           \* outcome of the call before it
    now,            \* wall clock read by datetime.now()
    args,           \* arguments handed to calculate_deviation
    text,           \* the lines format_result returned last
    batch,          \* a batch run: its stock list, loop position and results
    instances,      \* the analyzers of a program that builds several
    calls           \* the analyze calls in progress, one per analyzer

\* the state used only by the batch run, the formatter and the
\* several-analyzer program
aux == <<args, text, batch, instances, calls>>

vars == <<analyzer, df, deviation_pct, signals, out, prev, now,
          args, text, batch, instances, calls>>

\* nothing formatted, no batch started, no further analyzer built
AuxIdle ==
    /\ args = <<>>
    /\ text = <<>>
    /\ batch = [pc |-> "idle"]
    /\ instances = <<>>
    /\ calls = <<>>

----------------------------------------------------------------------------
(* Exact rational arithmetic standing for Python float arithmetic.         *)

Abs(i) == IF i < 0 THEN -i ELSE i

RECURSIVE Gcd(_, _)
Gcd(a, b) == IF b = 0 THEN a ELSE Gcd(b, a % b)

Rat(num, den) ==
    LET g == Gcd(Abs(num), Abs(den))
        s == IF den < 0 THEN -1 ELSE 1
    IN  [n |-> s * (num \div g), d |-> s * (den \div g)]

RInt(i) == [n |-> i, d |-> 1]
RAdd(x, y) == Rat(x.n * y.d + y.n * x.d, x.d * y.d)
RSub(x, y) == Rat(x.n * y.d - y.n * x.d, x.d * y.d)
RMul(x, y) == Rat(x.n * y.n, x.d * y.d)
RDiv(x, y) == Rat(x.n * y.d, x.d * y.n)
RNeg(x) == [n |-> -x.n, d |-> x.d]
RAbs(x) == [n |-> Abs(x.n), d |-> x.d]
RGe(x, y) == x.n * y.d >= y.n * x.d
RLe(x, y) == x.n * y.d <= y.n * x.d
RGt(x, y) == x.n * y.d > y.n * x.d
RLt(x, y) == x.n * y.d < y.n * x.d
RZero == RInt(0)

\* the integer nearest to x, a tie going to the even neighbour
RoundHalfEven(x) ==
    LET q == x.n \div x.d
        r == x.n - q * x.d
    IN  IF 2 * r < x.d THEN q
        ELSE IF 2 * r > x.d THEN q + 1
        ELSE IF q % 2 = 0 THEN q ELSE q + 1

\* round(x, 2) and the format :.2f of a percentage: the nearest multiple of
\* 1/100, counted in hundredths
Round2(x) == RoundHalfEven(RMul(x, RInt(100)))

\* round(x, 2) of a price: x counts tenths, the result counts hundredths
RoundPrice(x) == RoundHalfEven(RMul(x, RInt(10)))

----------------------------------------------------------------------------
(* MADeviationAnalyzer                                                     *)

Signal == {"BUY", "SELL", "NEUTRAL"}
\* the strengths the source writes as the strings 强, 中, 弱, 无
Strength == {"STRONG", "MEDIUM", "WEAK", "NONE"}

\* __init__(threshold)
NewAnalyzer(threshold) ==
    [threshold |-> threshold,
     THRESHOLDS |-> [weak |-> threshold,
                     medium |-> RAdd(threshold, RInt(1)),
                     strong |-> RAdd(threshold, RInt(2))]]

\* calculate_deviation returning the ratio instead of the percentage
calculate_deviation_ratio(current_price, ma_value) ==
    IF ma_value = RZero THEN RZero
    ELSE RDiv(RSub(current_price, ma_value), ma_value)

\* calculate_deviation(current_price, ma_value)
calculate_deviation(current_price, ma_value) ==
    IF ma_value = RZero THEN RZero
    ELSE RMul(RDiv(RSub(current_price, ma_value), ma_value), RInt(100))

\* get_signal_strength with every tier boundary excluded from its tier
get_signal_strength_strict(self, dev) ==
    LET abs_dev == RAbs(dev) IN
    IF RGt(abs_dev, self.THRESHOLDS.strong) THEN "STRONG"
    ELSE IF RGt(abs_dev, self.THRESHOLDS.medium) THEN "MEDIUM"
    ELSE IF RGt(abs_dev, self.THRESHOLDS.weak) THEN "WEAK"
    ELSE "NONE"

\* get_signal_strength grading the signed deviation, abs() left out
get_signal_strength_signed(self, dev) ==
    IF RGe(dev, self.THRESHOLDS.strong) THEN "STRONG"
    ELSE IF RGe(dev, self.THRESHOLDS.medium) THEN "MEDIUM"
    ELSE IF RGe(dev, self.THRESHOLDS.weak) THEN "WEAK"
    ELSE "NONE"

\* get_signal_strength(deviation_pct)
get_signal_strength(self, dev) ==
    LET abs_dev == RAbs(dev) IN
    IF RGe(abs_dev, self.THRESHOLDS.strong) THEN "STRONG"
    ELSE IF RGe(abs_dev, self.THRESHOLDS.medium) THEN "MEDIUM"
    ELSE IF RGe(abs_dev, self.THRESHOLDS.weak) THEN "WEAK"
    ELSE "NONE"

\* the branch of generate_signal with both boundaries excluded
SignalOf_strict(self, dev) ==
    IF RGt(dev, self.THRESHOLDS.weak) THEN "SELL"
    ELSE IF RLt(dev, RNeg(self.THRESHOLDS.weak)) THEN "BUY"
    ELSE "NEUTRAL"

\* the branch of generate_signal that picks the signal type
SignalOf(self, dev) ==
    IF RGe(dev, self.THRESHOLDS.weak) THEN "SELL"
    ELSE IF RLe(dev, RNeg(self.THRESHOLDS.weak)) THEN "BUY"
    ELSE "NEUTRAL"

\* generate_signal(deviation_pct, ma_type); ma_value and current_price are
\* left 0.0 for the caller to fill in
generate_signal(self, dev, ma_type) ==
    LET strength == get_signal_strength(self, dev)
        signal == SignalOf(self, dev)
        reason == IF signal = "SELL"
                    THEN <<"above", ma_type, Round2(RAbs(dev)), strength, "overbought">>
                  ELSE IF signal = "BUY"
                    THEN <<"below", ma_type, Round2(RAbs(dev)), strength, "oversold">>
                  ELSE <<"deviates", ma_type, Round2(dev), "normal range">>
    IN  [ma_type |-> ma_type,
         ma_value |-> 0,
         current_price |-> 0,
         deviation_pct |-> dev,
         signal |-> signal,
         strength |-> strength,
         reason |-> reason]

\* strength_weights with a weak signal carrying no weight
strength_weights_noweak(s) ==
    CASE s = "STRONG" -> 3
      [] s = "MEDIUM" -> 2
      [] s = "WEAK" -> 0
      [] s = "NONE" -> 0

\* strength_weights with the medium weight mistyped
strength_weights_flat(s) ==
    CASE s = "STRONG" -> 3
      [] s = "MEDIUM" -> 1
      [] s = "WEAK" -> 1
      [] s = "NONE" -> 0

\* strength_weights of _calculate_overall_signal
strength_weights(s) ==
    CASE s = "STRONG" -> 3
      [] s = "MEDIUM" -> 2
      [] s = "WEAK" -> 1
      [] s = "NONE" -> 0

RECURSIVE SumWeights(_, _)
SumWeights(sigs, side) ==
    IF sigs = <<>> THEN 0
    ELSE (IF Head(sigs).signal = side THEN strength_weights(Head(sigs).strength) ELSE 0)
         + SumWeights(Tail(sigs), side)

Count(sigs, side) == Cardinality({i \in 1..Len(sigs) : sigs[i].signal = side})

Min(a, b) == IF a < b THEN a ELSE b

\* _calculate_overall_signal with a tie going to the buy side
calculate_overall_signal_tie(sigs) ==
    IF sigs = <<>> THEN <<"NEUTRAL", 0>>
    ELSE LET buy_count == Count(sigs, "BUY")
             sell_count == Count(sigs, "SELL")
             buy_weight == SumWeights(sigs, "BUY")
             sell_weight == SumWeights(sigs, "SELL")
         IN  IF buy_weight >= sell_weight /\ buy_count > 0
               THEN <<"BUY", Min(100, buy_weight * 20)>>
             ELSE IF sell_weight > buy_weight /\ sell_count > 0
               THEN <<"SELL", Min(100, sell_weight * 20)>>
             ELSE <<"NEUTRAL", 0>>

\* _calculate_overall_signal with the cap of 100 left out
calculate_overall_signal_nocap(sigs) ==
    IF sigs = <<>> THEN <<"NEUTRAL", 0>>
    ELSE LET buy_count == Count(sigs, "BUY")
             sell_count == Count(sigs, "SELL")
             buy_weight == SumWeights(sigs, "BUY")
             sell_weight == SumWeights(sigs, "SELL")
         IN  IF buy_weight > sell_weight /\ buy_count > 0
               THEN <<"BUY", buy_weight * 20>>
             ELSE IF sell_weight > buy_weight /\ sell_count > 0
               THEN <<"SELL", sell_weight * 20>>
             ELSE <<"NEUTRAL", 0>>

\* _calculate_overall_signal(signals) -> (overall_signal, confidence)
calculate_overall_signal(sigs) ==
    IF sigs = <<>> THEN <<"NEUTRAL", 0>>
    ELSE LET buy_count == Count(sigs, "BUY")
             sell_count == Count(sigs, "SELL")
             buy_weight == SumWeights(sigs, "BUY")
             sell_weight == SumWeights(sigs, "SELL")
         IN  IF buy_weight > sell_weight /\ buy_count > 0
               THEN <<"BUY", Min(100, buy_weight * 20)>>
             ELSE IF sell_weight > buy_weight /\ sell_count > 0
               THEN <<"SELL", Min(100, sell_weight * 20)>>
             ELSE <<"NEUTRAL", 0>>

\* ma_periods of analyze
ma_periods == <<5, 10, 20, 60>>

\* the label f'MA{period}'
MALabel(period) == <<"MA", period>>

RECURSIVE SumCloses(_, _, _)
SumCloses(prices, from, to) ==
    IF from > to THEN 0 ELSE prices[from] + SumCloses(prices, from + 1, to)

\* calculate_ma(prices, period): prices.tail(period).mean()
calculate_ma(prices, period) ==
    IF Len(prices) < period THEN RZero
    ELSE Rat(SumCloses(prices, Len(prices) - period + 1, Len(prices)), period)

\* df.sort_values('date').reset_index(drop=True): a new frame with the rows
\* in ascending date order; the caller's frame is left as it was.  Rows are
\* inserted one by one behind the rows of smaller or equal date.
RECURSIVE InsertRow(_, _)
InsertRow(s, r) ==
    IF s = <<>> THEN <<r>>
    ELSE IF s[Len(s)].date <= r.date THEN Append(s, r)
    ELSE Append(InsertRow(SubSeq(s, 1, Len(s) - 1), r), s[Len(s)])

RECURSIVE SortFrom(_, _, _)
SortFrom(rows, k, acc) ==
    IF k > Len(rows) THEN acc ELSE SortFrom(rows, k + 1, InsertRow(acc, rows[k]))

\* the sort left out: the rows are used in the order handed over
SortByDate_none(rows) == rows

SortByDate(rows) == SortFrom(rows, 1, <<>>)

\* the loop of analyze skipping a period as long as the history itself
RECURSIVE PeriodSignals_le(_, _, _, _)
PeriodSignals_le(self, closes, current_price, k) ==
    IF k > Len(ma_periods) THEN <<>>
    ELSE LET period == ma_periods[k]
             rest == PeriodSignals_le(self, closes, current_price, k + 1)
         IN  IF Len(closes) <= period THEN rest
             ELSE LET ma_value == calculate_ma(closes, period)
                      dev == calculate_deviation(RInt(current_price), ma_value)
                      signal == generate_signal(self, dev, MALabel(period))
                  IN  <<[signal EXCEPT !.ma_value = RoundPrice(ma_value),
                                       !.current_price = RoundPrice(RInt(current_price))]>>
                      \o rest

\* one pass of the loop of analyze over ma_periods, from index k on
RECURSIVE PeriodSignals(_, _, _, _)
PeriodSignals(self, closes, current_price, k) ==
    IF k > Len(ma_periods) THEN <<>>
    ELSE LET period == ma_periods[k]
             rest == PeriodSignals(self, closes, current_price, k + 1)
         IN  IF Len(closes) < period THEN rest
             ELSE LET ma_value == calculate_ma(closes, period)
                      dev == calculate_deviation(RInt(current_price), ma_value)
                      signal == generate_signal(self, dev, MALabel(period))
                  IN  <<[signal EXCEPT !.ma_value = RoundPrice(ma_value),
                                       !.current_price = RoundPrice(RInt(current_price))]>>
                      \o rest

\* raw_data of analyze: one entry per evaluated period
RawData(sigs) ==
    [l \in {sigs[i].ma_type : i \in 1..Len(sigs)} |->
        LET s == sigs[CHOOSE i \in 1..Len(sigs) : sigs[i].ma_type = l]
        IN  [value |-> s.ma_value,
             deviation_pct |-> Round2(s.deviation_pct),
             signal |-> s.signal,
             strength |-> s.strength]]

\* analyze raising for every history shorter than the shortest period
analyze_short(self, frame, code, name, t) ==
    LET sorted == SortByDate(frame) IN
    IF Len(sorted) < ma_periods[1] THEN [status |-> "raised", error |-> "ValueError"]
    ELSE LET current_price == sorted[Len(sorted)].close
             closes == [i \in 1..Len(sorted) |-> sorted[i].close]
             sigs == PeriodSignals(self, closes, current_price, 1)
             overall == calculate_overall_signal(sigs)
         IN  [status |-> "returned",
              code |-> code,
              name |-> name,
              current_price |-> RoundPrice(RInt(current_price)),
              signals |-> sigs,
              overall_signal |-> overall[1],
              confidence |-> overall[2],
              analysis_time |-> t,
              raw_data |-> RawData(sigs)]

\* analyze(df, code, name), evaluated at wall-clock time t
analyze(self, frame, code, name, t) ==
    LET sorted == SortByDate(frame) IN
    IF Len(sorted) = 0 THEN [status |-> "raised", error |-> "ValueError"]
    ELSE LET current_price == sorted[Len(sorted)].close
             closes == [i \in 1..Len(sorted) |-> sorted[i].close]
             sigs == PeriodSignals(self, closes, current_price, 1)
             overall == calculate_overall_signal(sigs)
         IN  [status |-> "returned",
              code |-> code,
              name |-> name,
              current_price |-> RoundPrice(RInt(current_price)),
              signals |-> sigs,
              overall_signal |-> overall[1],
              confidence |-> overall[2],
              analysis_time |-> t,
              raw_data |-> RawData(sigs)]

----------------------------------------------------------------------------
(* Inputs                                                                  *)

\* longest run of equal closes at the start of a generated history
MaxFlat == 60
\* most closes following the flat run
MaxTail == 2
\* number of analyze calls followed on one history
MaxCalls == 2

BaseSet == {0, 1000}
PriceSet == {900, 1000, 1020}
ThresholdSet == {Rat(3, 2), RZero, Rat(-1, 2)}

Flat(base, len) == [i \in 1..len |-> base]

\* the closes of test_case_1 and test_case_2
TestCase1Prices == Flat(1000, 20) \o <<1010, 1000, 990, 980, 970>>
TestCase2Prices == Flat(1000, 20) \o <<1010, 1020, 1030, 1032, 1035>>

CloseLists ==
    {Flat(b, l) \o t : b \in BaseSet, l \in 0..MaxFlat,
                       t \in UNION {[1..k -> PriceSet] : k \in 0..MaxTail}}
    \cup {TestCase1Prices, TestCase2Prices}

\* create_test_data(close_prices): one row per close, consecutive days
create_test_data(close_prices) ==
    [i \in 1..Len(close_prices) |-> [date |-> i, close |-> close_prices[i]]]

Reverse(s) == [i \in 1..Len(s) |-> s[Len(s) + 1 - i]]

\* histories handed to analyze: chronological, or newest row first
Histories ==
    {create_test_data(c) : c \in CloseLists}
    \cup {Reverse(create_test_data(c)) : c \in CloseLists}

NoCall == [status |-> "none"]

----------------------------------------------------------------------------
(* Spec: an analyzer is constructed and analyze is called on a history     *)

Init ==
    /\ analyzer \in {NewAnalyzer(t) : t \in ThresholdSet}
    /\ df \in Histories
    /\ deviation_pct = RZero
    /\ signals = <<>>
    /\ out = NoCall
    /\ prev = NoCall
    /\ now = 0
    /\ AuxIdle

\* analyze sorting the caller's frame in place
AnalyzeInPlace ==
    /\ now < MaxCalls
    /\ out' = analyze(analyzer, df, "600519", "stock", now)
    /\ df' = SortByDate(df)
    /\ prev' = out
    /\ now' = now + 1
    /\ UNCHANGED <<analyzer, deviation_pct, signals>>
    /\ UNCHANGED aux

\* result = analyzer.analyze(df, code, name)
Analyze ==
    /\ now < MaxCalls
    /\ out' = analyze(analyzer, df, "600519", "stock", now)
    /\ prev' = out
    /\ now' = now + 1
    /\ UNCHANGED <<analyzer, df, deviation_pct, signals>>
    /\ UNCHANGED aux

Next == Analyze

Spec == Init /\ [][Next]_vars

----------------------------------------------------------------------------
(* SpecSignal: generate_signal and get_signal_strength on one deviation    *)

\* deviations handed in are the multiples of 1/4 percent up to DevMax/4
DevMax == 24

DevInputs == {Rat(k, 4) : k \in -DevMax..DevMax}

InitSignal ==
    /\ analyzer \in {NewAnalyzer(t) : t \in ThresholdSet}
    /\ df = <<>>
    /\ deviation_pct \in DevInputs
    /\ signals = <<>>
    /\ out = NoCall
    /\ prev = NoCall
    /\ now = 0
    /\ AuxIdle

\* analyzer.generate_signal(deviation_pct, 'MA5')
GenerateSignal ==
    /\ out' = [status |-> "signal",
               signal |-> generate_signal(analyzer, deviation_pct, MALabel(5))]
    /\ prev' = out
    /\ UNCHANGED <<analyzer, df, deviation_pct, signals, now>>
    /\ UNCHANGED aux

\* analyzer.get_signal_strength(deviation_pct)
GetSignalStrength ==
    /\ out' = [status |-> "strength",
               strength |-> get_signal_strength(analyzer, deviation_pct)]
    /\ prev' = out
    /\ UNCHANGED <<analyzer, df, deviation_pct, signals, now>>
    /\ UNCHANGED aux

NextSignal == GenerateSignal \/ GetSignalStrength

SpecSignal == InitSignal /\ [][NextSignal]_vars

----------------------------------------------------------------------------
(* SpecAggregate: _calculate_overall_signal on a list of signals           *)

\* longest list of signals handed to the aggregation
MaxSignals == 4

SignalLists ==
    UNION {[1..k -> [signal : Signal, strength : Strength]] : k \in 0..MaxSignals}

InitAggregate ==
    /\ analyzer = NewAnalyzer(Rat(3, 2))
    /\ df = <<>>
    /\ deviation_pct = RZero
    /\ signals \in SignalLists
    /\ out = NoCall
    /\ prev = NoCall
    /\ now = 0
    /\ AuxIdle

\* analyzer._calculate_overall_signal(signals)
Aggregate ==
    /\ out = NoCall
    /\ LET r == calculate_overall_signal(signals)
       IN  out' = [status |-> "overall", overall_signal |-> r[1], confidence |-> r[2]]
    /\ prev' = out
    /\ UNCHANGED <<analyzer, df, deviation_pct, signals, now>>
    /\ UNCHANGED aux

NextAggregate == Aggregate

SpecAggregate == InitAggregate /\ [][NextAggregate]_vars

----------------------------------------------------------------------------
(* Properties                                                              *)

\* the weights as the specification states them
SpecWeight(strength) ==
    CASE strength = "NONE" -> 0
      [] strength = "WEAK" -> 1
      [] strength = "MEDIUM" -> 2
      [] strength = "STRONG" -> 3

RECURSIVE SideWeightUpTo(_, _, _)
SideWeightUpTo(sigs, side, k) ==
    IF k = 0 THEN 0
    ELSE SideWeightUpTo(sigs, side, k - 1)
         + (IF sigs[k].signal = side THEN SpecWeight(sigs[k].strength) ELSE 0)

SideWeight(sigs, side) == SideWeightUpTo(sigs, side, Len(sigs))

Capped(w) == IF w * 20 > 100 THEN 100 ELSE w * 20

StrongBuy == [signal |-> "BUY", strength |-> "STRONG"]
MediumBuy == [signal |-> "BUY", strength |-> "MEDIUM"]
StrongSell == [signal |-> "SELL", strength |-> "STRONG"]

\* C1: for a non-empty signal list, the heavier side wins and the confidence
\* is min(100, 20 * its weight): BUY when buy_weight > sell_weight, SELL when
\* sell_weight > buy_weight; one STRONG BUY gives 60, STRONG + MEDIUM BUY
\* gives 100, and adding a signal that raises the winning weight (the winner
\* staying the same) never lowers the confidence.
C1_WeightedVote ==
    (out.status = "overall" /\ signals # <<>>) =>
        LET bw == SideWeight(signals, "BUY")
            sw == SideWeight(signals, "SELL")
        IN  /\ bw > sw => out.overall_signal = "BUY" /\ out.confidence = Capped(bw)
            /\ sw > bw => out.overall_signal = "SELL" /\ out.confidence = Capped(sw)
            /\ signals = <<StrongBuy>> => out.confidence = 60
            /\ signals \in {<<StrongBuy, MediumBuy>>, <<MediumBuy, StrongBuy>>}
                  => out.confidence = 100
            /\ \A extra \in [signal : Signal, strength : Strength] :
                  LET more == Append(signals, extra)
                      r == calculate_overall_signal(more)
                  IN  (/\ out.overall_signal # "NEUTRAL"
                       /\ r[1] = out.overall_signal
                       /\ SideWeight(more, r[1]) >= SideWeight(signals, r[1]))
                      => r[2] >= out.confidence

\* C1 witness: STRONG + MEDIUM on the buy side was aggregated to BUY, capped at 100
C1_Witness ==
    /\ out.status = "overall"
    /\ signals = <<StrongBuy, MediumBuy>>
    /\ out.overall_signal = "BUY"
    /\ out.confidence = 100

\* C2: whenever buy_weight equals sell_weight (empty list, no weight on
\* either side, or equal nonzero weight on both) the aggregation returns
\* NEUTRAL with confidence 0.
C2_TieIsNeutral ==
    (out.status = "overall"
       /\ SideWeight(signals, "BUY") = SideWeight(signals, "SELL"))
    => (out.overall_signal = "NEUTRAL" /\ out.confidence = 0)

\* C2 witness: one STRONG BUY and one STRONG SELL were aggregated
C2_Witness ==
    /\ out.status = "overall"
    /\ signals = <<StrongBuy, StrongSell>>
    /\ out.overall_signal = "NEUTRAL"

C4_StrengthTiers ==
    LET t == analyzer.threshold
        weak == t
        medium == RAdd(t, RInt(1))
        strong == RAdd(t, RInt(2))
        d == RAbs(deviation_pct)
    IN  /\ analyzer.THRESHOLDS = [weak |-> weak, medium |-> medium, strong |-> strong]
        /\ out.status = "strength" =>
             /\ RLt(d, weak) => out.strength = "NONE"
             /\ (RGe(d, weak) /\ RLt(d, medium)) => out.strength = "WEAK"
             /\ (RGe(d, medium) /\ RLt(d, strong)) => out.strength = "MEDIUM"
             /\ RGe(d, strong) => out.strength = "STRONG"

\* C4 witness: a deviation lying exactly on the medium boundary was graded MEDIUM
C4_Witness ==
    /\ out.status = "strength"
    /\ RAbs(deviation_pct) = analyzer.THRESHOLDS.medium
    /\ out.strength = "MEDIUM"

\* the closes of the caller's history in chronological order (dates are 1..n)
ClosesByDate ==
    [i \in 1..Len(df) |-> df[CHOOSE j \in 1..Len(df) : df[j].date = i].close]

AllClosesEqual == \A i, j \in 1..Len(df) : df[i].close = df[j].close

HasSignal(side) == \E i \in 1..Len(out.signals) : out.signals[i].signal = side

\* C5: analyze raises exactly when the history has no point; every history
\* with at least one point makes it return a result.
C5_RaisesOnlyOnEmpty ==
    out.status # "none" =>
        /\ out.status = "raised" <=> Len(df) = 0
        /\ out.status = "returned" <=> Len(df) >= 1

\* C5 witness: analyze was called on an empty history and raised
C5_Witness == df = <<>> /\ out.status = "raised"

\* C6: for n >= 1 points the signals are exactly those of the periods
\* p in 5, 10, 20, 60 with p <= n, in ascending period order; for n < 5
\* there is none and the result is NEUTRAL with confidence 0.
C6_OneSignalPerPeriod ==
    out.status = "returned" =>
        LET n == Len(df)
            fit(p) == p <= n
            expected == SelectSeq(<<5, 10, 20, 60>>, fit)
        IN  /\ n >= 1
            /\ Len(out.signals) = Len(expected)
            /\ \A i \in 1..Len(expected) : out.signals[i].ma_type = <<"MA", expected[i]>>
            /\ n < 5 => /\ out.signals = <<>>
                        /\ out.overall_signal = "NEUTRAL"
                        /\ out.confidence = 0

\* C6 witness: a history of 59 points gave MA5, MA10, MA20 and no MA60
C6_Witness ==
    /\ out.status = "returned"
    /\ Len(df) = 59
    /\ Len(out.signals) = 3

\* C7: when all closes are equal, every signal has deviation 0 and the
\* result is NEUTRAL with confidence 0, for every base threshold.
C7_FlatIsNeutral ==
    (out.status = "returned" /\ AllClosesEqual) =>
        /\ \A i \in 1..Len(out.signals) : out.signals[i].deviation_pct = RZero
        /\ out.overall_signal = "NEUTRAL"
        /\ out.confidence = 0

\* C8: the confidence of a returned result is an integer from 0 to 100.
C8_ConfidenceRange ==
    out.status = "returned" => out.confidence \in 0..100

\* C8 witness: a result whose winning weight exceeds 5 carries confidence 100
C8_Witness ==
    /\ out.status = "returned"
    /\ out.overall_signal # "NEUTRAL"
    /\ SideWeight(out.signals, out.overall_signal) > 5
    /\ out.confidence = 100

\* C9: at least one BUY signal and no SELL signal gives BUY with positive
\* confidence, at least one SELL and no BUY gives SELL with positive
\* confidence; with threshold 1.5, twenty closes of 100 followed by
\* 101, 100, 99, 98, 97 give BUY and followed by 101, 102, 103, 103.2, 103.5
\* give SELL.
C9_OneSidedSignals ==
    out.status = "returned" =>
        /\ (HasSignal("BUY") /\ ~HasSignal("SELL"))
              => (out.overall_signal = "BUY" /\ out.confidence > 0)
        /\ (HasSignal("SELL") /\ ~HasSignal("BUY"))
              => (out.overall_signal = "SELL" /\ out.confidence > 0)
        /\ (analyzer.threshold = Rat(3, 2)
              /\ ClosesByDate = [i \in 1..20 |-> 1000] \o <<1010, 1000, 990, 980, 970>>)
              => (out.overall_signal = "BUY" /\ out.confidence > 0)
        /\ (analyzer.threshold = Rat(3, 2)
              /\ ClosesByDate = [i \in 1..20 |-> 1000] \o <<1010, 1020, 1030, 1032, 1035>>)
              => (out.overall_signal = "SELL" /\ out.confidence > 0)

\* C9 witness: a result whose signals are all SELL or NEUTRAL, at least one
\* SELL, every SELL of strength WEAK
C9_Witness ==
    /\ out.status = "returned"
    /\ HasSignal("SELL")
    /\ ~HasSignal("BUY")
    /\ \A i \in 1..Len(out.signals) :
          out.signals[i].signal = "SELL" => out.signals[i].strength = "WEAK"
    /\ out.overall_signal = "SELL"

SameButTime(r1, r2) ==
    /\ r1.status = r2.status
    /\ r1.status = "returned" =>
          [r1 EXCEPT !.analysis_time = 0] = [r2 EXCEPT !.analysis_time = 0]

----------------------------------------------------------------------------
(* SpecPermute: the same points handed to analyze in different row orders  *)

\* most rows of a history whose row order is permuted
MaxPermLen == 6

\* daily change of the closes of a permuted history, in tenths
StepSet == {-30, -5, 20}

Ramp(step, len) == [i \in 1..len |-> 1000 + step * i]

InitPermute ==
    /\ analyzer \in {NewAnalyzer(t) : t \in ThresholdSet}
    /\ df \in {create_test_data(Ramp(st, l)) : st \in StepSet, l \in 1..MaxPermLen}
    /\ deviation_pct = RZero
    /\ signals = <<>>
    /\ out = NoCall
    /\ prev = NoCall
    /\ now = 0
    /\ AuxIdle

\* the caller hands over the same rows with two neighbours exchanged
Shuffle ==
    /\ \E i \in 1..(Len(df) - 1) :
          df' = [df EXCEPT ![i] = df[i + 1], ![i + 1] = df[i]]
    /\ UNCHANGED <<analyzer, deviation_pct, signals, out, prev, now>>
    /\ UNCHANGED aux

NextPermute == Analyze \/ Shuffle

SpecPermute == InitPermute /\ [][NextPermute]_vars

RECURSIVE LatestSum(_, _)
LatestSum(closes, p) ==
    IF p = 0 THEN 0
    ELSE closes[Len(closes) - p + 1] + LatestSum(closes, p - 1)

\* C11: with pairwise distinct timestamps the result does not depend on the
\* order of the rows: current_price is the close of the greatest timestamp,
\* every deviation is taken against the mean of the p closes of the greatest
\* timestamps, and a call after the rows were reordered repeats the outcome
\* of the call before (current_price, signals, overall_signal, confidence).
C11_OrderIndependent ==
    out.status = "returned" =>
        LET c == ClosesByDate
            n == Len(c)
        IN  /\ out.current_price = c[n] * 10
            /\ \A i \in 1..Len(out.signals) :
                  LET p == out.signals[i].ma_type[2]
                      sum == LatestSum(c, p)
                  IN  out.signals[i].deviation_pct =
                         (IF sum = 0 THEN RZero ELSE Rat((c[n] * p - sum) * 100, sum))
            /\ prev.status = "returned" => SameButTime(prev, out)

\* C11 witness: two calls returned signals on a history of more than five
\* rows that is not in date order and whose last row is not the latest
C11_Witness ==
    /\ prev.status = "returned"
    /\ out.status = "returned"
    /\ out.signals # <<>>
    /\ Len(df) > 5
    /\ df[Len(df)].date # Len(df)
    /\ df[1].date > df[2].date

----------------------------------------------------------------------------
(* SpecDeviation: calculate_deviation on a price and an average, and       *)
(* analyze on short histories, among them histories of zero closes         *)

\* most rows of the short histories
MaxShort == 6

ShortHistories == {create_test_data(c) : c \in {l \in CloseLists : Len(l) <= MaxShort}}

DevArgs ==
    {<<RInt(c), Rat(sum, p)>> : c \in {0, 970, 1000}, sum \in {0, 4900, 5013},
                               p \in {5, 10}}

InitDeviation ==
    /\ analyzer \in {NewAnalyzer(t) : t \in ThresholdSet}
    /\ df \in ShortHistories
    /\ deviation_pct = RZero
    /\ signals = <<>>
    /\ out = NoCall
    /\ prev = NoCall
    /\ now = 0
    /\ args \in DevArgs
    /\ text = <<>>
    /\ batch = [pc |-> "idle"]
    /\ instances = <<>>
    /\ calls = <<>>

\* analyzer.calculate_deviation(current_price, ma_value)
CalculateDeviation ==
    /\ out.status # "deviation"
    /\ out' = [status |-> "deviation", value |-> calculate_deviation(args[1], args[2])]
    /\ prev' = out
    /\ UNCHANGED <<analyzer, df, deviation_pct, signals, now>>
    /\ UNCHANGED aux

NextDeviation == CalculateDeviation \/ Analyze

SpecDeviation == InitDeviation /\ [][NextDeviation]_vars

\* C12: calculate_deviation returns 0 for every current_price when ma_value
\* is 0 and (current_price - ma_value) / ma_value * 100 otherwise; in analyze
\* a period whose average is 0 yields a signal of deviation 0, not a failure.
C12_ZeroAverage ==
    /\ out.status = "deviation" =>
          LET cp == args[1]
              ma == args[2]
          IN  out.value = (IF ma.n = 0 THEN [n |-> 0, d |-> 1]
                           ELSE Rat((cp.n * ma.d - ma.n * cp.d) * 100, cp.d * ma.n))
    /\ (out.status \in {"returned", "raised"} /\ Len(df) >= 1) =>
          /\ out.status = "returned"
          /\ \A p \in {5, 10, 20, 60} :
                (p <= Len(df) /\ LatestSum(ClosesByDate, p) = 0) =>
                   \E i \in 1..Len(out.signals) :
                      /\ out.signals[i].ma_type = <<"MA", p>>
                      /\ out.signals[i].deviation_pct = [n |-> 0, d |-> 1]

\* C12 witness: calculate_deviation was given a nonzero price and the average
\* 0 and returned 0
C12_Witness ==
    /\ out.status = "deviation"
    /\ args[2] = RZero
    /\ args[1] # RZero
    /\ out.value = RZero

----------------------------------------------------------------------------
(* SpecBatch: batch_analyze_from_config and batch_analyze_with_real_data   *)

\* longest stock list of a batch run
MaxStocks == 3

StockCodes == {"600519", "000001"}

StockLists == UNION {[1..k -> StockCodes] : k \in 0..MaxStocks}

BatchFunctions == {"batch_analyze_from_config", "batch_analyze_with_real_data"}

\* what get_stock_data_demo / get_real_stock_data hands back for one code:
\* None, a frame without rows, a frame analyze cannot read, a usable frame
FetchOutcomes ==
    {[kind |-> "none", rows |-> <<>>],
     [kind |-> "frame", rows |-> <<>>],
     [kind |-> "malformed", rows |-> <<[date |-> 1, close |-> 1000]>>],
     [kind |-> "frame", rows |-> create_test_data(<<1000, 1000, 990>>)],
     [kind |-> "frame", rows |-> create_test_data(TestCase1Prices)]}

\* stock_names.get(code, ...) and f"股票{code}"
StockName(fn, code) ==
    IF fn = "batch_analyze_from_config" THEN <<"name of", code>> ELSE <<"stock", code>>

\* analyzer.analyze(df, code, name) inside the try block: a frame analyze
\* cannot read makes it raise
AnalyzeCall(self, data, code, name, t) ==
    IF data.kind = "malformed" THEN [status |-> "raised", error |-> "KeyError"]
    ELSE analyze(self, data.rows, code, name, t)

InitBatch ==
    /\ analyzer = NewAnalyzer(Rat(3, 2))
    /\ df = <<>>
    /\ deviation_pct = RZero
    /\ signals = <<>>
    /\ out = NoCall
    /\ prev = NoCall
    /\ now = 0
    /\ args = <<>>
    /\ text = <<>>
    /\ batch \in [pc : {"start"}, fn : BatchFunctions, stock_list : StockLists,
                  threshold : ThresholdSet, i : {0}, results : {<<>>}, log : {<<>>}]
    /\ instances = <<>>
    /\ calls = <<>>

\* the head of the batch function: an empty stock list ends the run, else
\* the analyzer is built and the loop entered
BatchStart ==
    /\ batch.pc = "start"
    /\ IF batch.stock_list = <<>>
         THEN /\ batch' = [batch EXCEPT !.pc = "done"]
              /\ UNCHANGED analyzer
         ELSE /\ batch' = [batch EXCEPT !.pc = "loop", !.i = 1]
              /\ analyzer' = IF batch.fn = "batch_analyze_from_config"
                               THEN NewAnalyzer(Rat(3, 2))
                               ELSE NewAnalyzer(batch.threshold)
    /\ UNCHANGED <<df, deviation_pct, signals, out, prev, now, args, text,
                   instances, calls>>

\* the loop body with the run ended by the except branch
BatchStep_break ==
    /\ batch.pc = "loop"
    /\ batch.i <= Len(batch.stock_list)
    /\ \E data \in FetchOutcomes :
          LET code == batch.stock_list[batch.i]
              result == AnalyzeCall(analyzer, data, code, StockName(batch.fn, code), now)
          IN  IF data.kind = "none" \/ Len(data.rows) = 0
                THEN batch' = [batch EXCEPT !.i = @ + 1,
                                  !.log = Append(@, [code |-> code, outcome |-> "skipped"])]
              ELSE IF result.status = "raised"
                THEN batch' = [batch EXCEPT !.pc = "done",
                                  !.log = Append(@, [code |-> code, outcome |-> "error"])]
              ELSE batch' = [batch EXCEPT !.i = @ + 1,
                                  !.results = Append(@, result),
                                  !.log = Append(@, [code |-> code, outcome |-> "analysed"])]
    /\ UNCHANGED <<analyzer, df, deviation_pct, signals, out, prev, now, args, text,
                   instances, calls>>

\* one pass of the loop body for stock_list[i]: fetch, skip on missing or
\* empty data, analyze and collect, or report the exception; then go on
BatchStep ==
    /\ batch.pc = "loop"
    /\ batch.i <= Len(batch.stock_list)
    /\ \E data \in FetchOutcomes :
          LET code == batch.stock_list[batch.i]
              result == AnalyzeCall(analyzer, data, code, StockName(batch.fn, code), now)
          IN  IF data.kind = "none" \/ Len(data.rows) = 0
                THEN batch' = [batch EXCEPT !.i = @ + 1,
                                  !.log = Append(@, [code |-> code, outcome |-> "skipped"])]
              ELSE IF result.status = "raised"
                THEN batch' = [batch EXCEPT !.i = @ + 1,
                                  !.log = Append(@, [code |-> code, outcome |-> "error"])]
              ELSE batch' = [batch EXCEPT !.i = @ + 1,
                                  !.results = Append(@, result),
                                  !.log = Append(@, [code |-> code, outcome |-> "analysed"])]
    /\ UNCHANGED <<analyzer, df, deviation_pct, signals, out, prev, now, args, text,
                   instances, calls>>

\* the loop is over: the summary is printed and the function returns
BatchSummary ==
    /\ batch.pc = "loop"
    /\ batch.i > Len(batch.stock_list)
    /\ batch' = [batch EXCEPT !.pc = "done"]
    /\ UNCHANGED <<analyzer, df, deviation_pct, signals, out, prev, now, args, text,
                   instances, calls>>

NextBatch == BatchStart \/ BatchStep \/ BatchSummary

SpecBatch == InitBatch /\ [][NextBatch]_vars

LogCodes == [j \in 1..Len(batch.log) |-> batch.log[j].code]

Analysed(entry) == entry.outcome = "analysed"

\* C13: a failure on one instrument never stops a batch run: while the run
\* is on, the instruments attempted so far are the first ones of the list,
\* each once and in list order, and a next step is possible; when the run is
\* over every instrument of the list was attempted once in list order and
\* the results are those of the instruments analysed successfully, in list
\* order.
C13_BatchContinues ==
    /\ batch.pc = "loop" =>
          /\ Len(batch.log) = batch.i - 1
          /\ LogCodes = SubSeq(batch.stock_list, 1, batch.i - 1)
          /\ ENABLED NextBatch
    /\ batch.pc = "done" =>
          /\ LogCodes = batch.stock_list
          /\ LET ok == SelectSeq(batch.log, Analysed)
             IN  /\ Len(batch.results) = Len(ok)
                 /\ \A j \in 1..Len(ok) :
                       /\ batch.results[j].status = "returned"
                       /\ batch.results[j].code = ok[j].code

\* C13 witness: a finished run in which an instrument raised, the next one
\* had no data and the one after was analysed and collected
C13_Witness ==
    /\ batch.pc = "done"
    /\ Len(batch.log) = 3
    /\ batch.log[1].outcome = "error"
    /\ batch.log[2].outcome = "skipped"
    /\ batch.log[3].outcome = "analysed"
    /\ Len(batch.results) = 1

----------------------------------------------------------------------------
(* SpecFormat: analyze_single_stock, which analyzes and formats the result *)

\* the tag in front of a signal line and of the overall line
Emoji(signal) ==
    IF signal = "SELL" THEN "[sell]" ELSE IF signal = "BUY" THEN "[buy]" ELSE "[neutral]"

\* signal_text of format_result
SignalText(signal) ==
    CASE signal = "BUY" -> "buy"
      [] signal = "SELL" -> "sell"
      [] signal = "NEUTRAL" -> "wait"

RECURSIVE SignalLines(_)
SignalLines(sigs) ==
    IF sigs = <<>> THEN <<>>
    ELSE <<<<"signal", Emoji(Head(sigs).signal), Head(sigs).ma_type, Head(sigs).ma_value,
             Round2(Head(sigs).deviation_pct), Head(sigs).reason>>>>
         \o SignalLines(Tail(sigs))

\* format_result with the sell advice copied from the buy branch
format_result_same(result) ==
    <<<<"## analysis", result.name, result.code>>,
      <<>>,
      <<"price", result.current_price>>,
      <<"time", result.analysis_time>>,
      <<>>,
      <<"### deviation details">>,
      <<>>>>
    \o SignalLines(result.signals)
    \o <<<<>>, <<"### overall">>, <<>>>>
    \o <<<<"overall", Emoji(result.overall_signal), SignalText(result.overall_signal),
           result.confidence>>>>
    \o (IF result.overall_signal # "NEUTRAL"
          THEN <<<<>>, <<"advice:">>>>
               \o <<<<"- price fell below the moving-average support, oversold">>,
                    <<"- watch for a rebound, consider buying in steps">>>>
          ELSE <<>>)

\* format_result(result): the lines of the text, each a tuple of its parts
format_result(result) ==
    <<<<"## analysis", result.name, result.code>>,
      <<>>,
      <<"price", result.current_price>>,
      <<"time", result.analysis_time>>,
      <<>>,
      <<"### deviation details">>,
      <<>>>>
    \o SignalLines(result.signals)
    \o <<<<>>, <<"### overall">>, <<>>>>
    \o <<<<"overall", Emoji(result.overall_signal), SignalText(result.overall_signal),
           result.confidence>>>>
    \o (IF result.overall_signal # "NEUTRAL"
          THEN <<<<>>, <<"advice:">>>>
               \o (IF result.overall_signal = "BUY"
                     THEN <<<<"- price fell below the moving-average support, oversold">>,
                            <<"- watch for a rebound, consider buying in steps">>>>
                     ELSE <<<<"- price broke above the moving-average resistance, overbought">>,
                            <<"- mind the pullback risk, consider taking profit in steps">>>>)
          ELSE <<>>)

InitFormat ==
    /\ analyzer \in {NewAnalyzer(t) : t \in ThresholdSet}
    /\ df \in ShortHistories \cup {create_test_data(TestCase1Prices),
                                   create_test_data(TestCase2Prices)}
    /\ deviation_pct = RZero
    /\ signals = <<>>
    /\ out = NoCall
    /\ prev = NoCall
    /\ now = 0
    /\ AuxIdle

\* the try block of analyze_single_stock(code): analyze, then format_result
\* of the result; an exception leaves nothing formatted
AnalyzeSingleStock ==
    /\ now < MaxCalls
    /\ \E code \in StockCodes :
          LET result == analyze(analyzer, df, code, code, now)
          IN  /\ out' = result
              /\ text' = IF result.status = "returned" THEN format_result(result) ELSE text
    /\ prev' = out
    /\ now' = now + 1
    /\ UNCHANGED <<analyzer, df, deviation_pct, signals, args, batch, instances, calls>>

NextFormat == AnalyzeSingleStock

SpecFormat == InitFormat /\ [][NextFormat]_vars

\* the lines of the formatted text behind the overall-signal line
Advisory ==
    LET k == CHOOSE j \in 1..Len(text) : Len(text[j]) > 0 /\ text[j][1] = "overall"
    IN  SubSeq(text, k + 1, Len(text))

BuyAdvice ==
    <<<<>>, <<"advice:">>,
      <<"- price fell below the moving-average support, oversold">>,
      <<"- watch for a rebound, consider buying in steps">>>>

SellAdvice ==
    <<<<>>, <<"advice:">>,
      <<"- price broke above the moving-average resistance, overbought">>,
      <<"- mind the pullback risk, consider taking profit in steps">>>>

Formatted == out.status = "returned" /\ text # <<>>

\* C14: behind the overall-signal line format_result appends an advisory
\* text fixed by overall_signal alone, and BUY, SELL and NEUTRAL each have
\* an advisory text of their own.
C14_AdvisoryForEverySignal ==
    Formatted =>
        /\ Advisory # <<>>
        /\ out.overall_signal = "BUY" => Advisory = BuyAdvice
        /\ out.overall_signal = "SELL" => Advisory = SellAdvice
        /\ out.overall_signal = "NEUTRAL" => Advisory \notin {BuyAdvice, SellAdvice}

\* C14 as amended: the text behind the overall-signal line is fixed by
\* overall_signal alone: BUY and SELL each append their own advisory text
\* and NEUTRAL appends nothing.
C14_Amended ==
    Formatted =>
        /\ out.overall_signal = "BUY" => Advisory = BuyAdvice
        /\ out.overall_signal = "SELL" => Advisory = SellAdvice
        /\ out.overall_signal = "NEUTRAL" => Advisory = <<>>

\* C14 witness: a SELL result was formatted and ends with the sell advice
C14_Witness ==
    /\ Formatted
    /\ out.overall_signal = "SELL"
    /\ Advisory = SellAdvice

----------------------------------------------------------------------------
(* SpecInstances: several analyzers, their analyze calls interleaved       *)

\* number of analyzers the program builds
MaxAnalyzers == 2

\* days of history each analyzer is given
MaxRamp == 10

\* the class attribute MADeviationAnalyzer.THRESHOLDS
ClassThresholds ==
    [weak |-> Rat(3, 2), medium |-> Rat(5, 2), strong |-> Rat(7, 2)]

InstanceHistories ==
    {<<>>} \cup {Reverse(create_test_data(Ramp(step, MaxRamp))) : step \in StepSet}

IdleCall == [pc |-> "idle"]

InitInstances ==
    /\ analyzer = NewAnalyzer(Rat(3, 2))
    /\ df = <<>>
    /\ deviation_pct = RZero
    /\ signals = <<>>
    /\ out = NoCall
    /\ prev = NoCall
    /\ now = 0
    /\ args = <<>>
    /\ text = <<>>
    /\ batch = [pc |-> "idle"]
    /\ instances \in {[class |-> ClassThresholds, objs |-> <<NewAnalyzer(t)>>] :
                         t \in ThresholdSet}
    /\ calls = <<IdleCall>>

\* MADeviationAnalyzer(threshold) with THRESHOLDS kept in one dictionary that
\* all instances share
Construct_shared(threshold) ==
    /\ Len(instances.objs) < MaxAnalyzers
    /\ LET new == NewAnalyzer(threshold)
       IN  instances' =
              [class |-> new.THRESHOLDS,
               objs |-> [j \in 1..Len(instances.objs) |->
                           [instances.objs[j] EXCEPT !.THRESHOLDS = new.THRESHOLDS]]
                        \o <<new>>]
    /\ calls' = Append(calls, IdleCall)
    /\ UNCHANGED <<analyzer, df, deviation_pct, signals, out, prev, now, args, text, batch>>

\* MADeviationAnalyzer(threshold): a further instance; __init__ binds a new
\* THRESHOLDS dictionary to the instance and leaves the class attribute
Construct(threshold) ==
    /\ Len(instances.objs) < MaxAnalyzers
    /\ instances' = [instances EXCEPT !.objs = Append(@, NewAnalyzer(threshold))]
    /\ calls' = Append(calls, IdleCall)
    /\ UNCHANGED <<analyzer, df, deviation_pct, signals, out, prev, now, args, text, batch>>

\* analyze up to the loop: sort, the empty check, current_price
StartAnalyze(id, frame) ==
    /\ calls[id].pc = "idle"
    /\ LET sorted == SortByDate(frame)
       IN  calls' = [calls EXCEPT ![id] =
              IF Len(sorted) = 0
                THEN [pc |-> "done", frame |-> frame,
                      result |-> [status |-> "raised", error |-> "ValueError"]]
                ELSE [pc |-> "loop", frame |-> frame,
                      closes |-> [i \in 1..Len(sorted) |-> sorted[i].close],
                      current_price |-> sorted[Len(sorted)].close,
                      k |-> 1, sigs |-> <<>>]]
    /\ UNCHANGED <<analyzer, df, deviation_pct, signals, out, prev, now, args, text, batch,
                   instances>>

\* one pass of the loop of analyze, for ma_periods[k], reading self.THRESHOLDS
LoopPass(id) ==
    /\ calls[id].pc = "loop"
    /\ calls[id].k <= Len(ma_periods)
    /\ LET c == calls[id]
           self == instances.objs[id]
           period == ma_periods[c.k]
           ma_value == calculate_ma(c.closes, period)
           dev == calculate_deviation(RInt(c.current_price), ma_value)
           signal == generate_signal(self, dev, MALabel(period))
           filled == [signal EXCEPT !.ma_value = RoundPrice(ma_value),
                                    !.current_price = RoundPrice(RInt(c.current_price))]
       IN  calls' = [calls EXCEPT ![id] =
              [c EXCEPT !.k = @ + 1,
                        !.sigs = IF Len(c.closes) < period THEN @ ELSE Append(@, filled)]]
    /\ UNCHANGED <<analyzer, df, deviation_pct, signals, out, prev, now, args, text, batch,
                   instances>>

\* analyze behind the loop: the overall signal and the result
FinishAnalyze(id) ==
    /\ calls[id].pc = "loop"
    /\ calls[id].k > Len(ma_periods)
    /\ LET c == calls[id]
           overall == calculate_overall_signal(c.sigs)
       IN  calls' = [calls EXCEPT ![id] =
              [pc |-> "done", frame |-> c.frame,
               result |-> [status |-> "returned",
                           code |-> "600519",
                           name |-> "stock",
                           current_price |-> RoundPrice(RInt(c.current_price)),
                           signals |-> c.sigs,
                           overall_signal |-> overall[1],
                           confidence |-> overall[2],
                           analysis_time |-> now,
                           raw_data |-> RawData(c.sigs)]]]
    /\ UNCHANGED <<analyzer, df, deviation_pct, signals, out, prev, now, args, text, batch,
                   instances>>

NextInstances ==
    \/ \E t \in ThresholdSet : Construct(t)
    \/ \E id \in 1..Len(calls), h \in InstanceHistories : StartAnalyze(id, h)
    \/ \E id \in 1..Len(calls) : LoopPass(id)
    \/ \E id \in 1..Len(calls) : FinishAnalyze(id)

SpecInstances == InitInstances /\ [][NextInstances]_vars

\* C15: thresholds belong to the instance: whatever other analyzers are
\* built and however the analyze calls interleave, every analyzer keeps the
\* tiers t, t + 1, t + 2 of its own base threshold, the class attribute
\* stays as written, and every finished analyze call returns what the call
\* returns when run alone on that analyzer.
C15_PerInstanceThresholds ==
    /\ instances.class = ClassThresholds
    /\ \A id \in 1..Len(instances.objs) :
          LET t == instances.objs[id].threshold
          IN  /\ instances.objs[id].THRESHOLDS =
                    [weak |-> t, medium |-> RAdd(t, RInt(1)), strong |-> RAdd(t, RInt(2))]
              /\ calls[id].pc = "done" =>
                    calls[id].result =
                       analyze(NewAnalyzer(t), calls[id].frame, "600519", "stock", now)

\* C15 witness: two analyzers of different thresholds have both finished
\* analyze on the same history, with signals, and their results differ
C15_Witness ==
    /\ Len(calls) = 2
    /\ instances.objs[1].threshold # instances.objs[2].threshold
    /\ calls[1].pc = "done" /\ calls[2].pc = "done"
    /\ calls[1].frame = calls[2].frame
    /\ calls[1].result.status = "returned"
    /\ calls[1].result.signals # <<>>
    /\ calls[1].result.signals # calls[2].result.signals

----------------------------------------------------------------------------
(* SpecClassify: signals built one by one and signals inside a result      *)

\* base thresholds, among them the ones that put medium or strong below 0
ClassifyThresholds == ThresholdSet \cup {Rat(-3, 2), Rat(-5, 2)}

ClassifyHistories ==
    {create_test_data(Ramp(step, MaxRamp)) : step \in StepSet \cup {0}}

InitClassify ==
    /\ analyzer \in {NewAnalyzer(t) : t \in ClassifyThresholds}
    /\ df \in ClassifyHistories
    /\ deviation_pct \in DevInputs
    /\ signals = <<>>
    /\ out = NoCall
    /\ prev = NoCall
    /\ now = 0
    /\ AuxIdle

NextClassify == GenerateSignal \/ Analyze

SpecClassify == InitClassify /\ [][NextClassify]_vars

Consistent(s) ==
    /\ s.signal = "NEUTRAL" <=> s.strength = "NONE"
    /\ s.signal \in {"BUY", "SELL"} => strength_weights(s.strength) >= 1

\* C16: for every deviation and base threshold, a signal built by
\* generate_signal is NEUTRAL exactly when its strength is NONE, so a BUY or
\* SELL signal weighs at least 1; this holds of every signal inside a result
\* too, and a result whose overall signal is BUY or SELL has confidence of
\* 20 or more.
C16_ConsistentClassification ==
    /\ out.status = "signal" => Consistent(out.signal)
    /\ out.status = "returned" =>
          /\ \A i \in 1..Len(out.signals) : Consistent(out.signals[i])
          /\ out.overall_signal \in {"BUY", "SELL"} => out.confidence >= 20

\* C16 witness: under a negative base threshold a SELL signal of strength
\* WEAK was built for a deviation of zero, after a call of analyze that
\* returned an overall BUY
C16_Witness ==
    /\ out.status = "signal"
    /\ prev.status = "returned"
    /\ prev.overall_signal = "BUY"
    /\ RLt(analyzer.threshold, RZero)
    /\ deviation_pct = RZero
    /\ out.signal.signal = "SELL"
    /\ out.signal.strength = "WEAK"

====
